---- MODULE Spec2Model ----
(***************************************************************************)
(* Model of McpCoordinator (src/src/core/mcp/mcpCoordinator.ts): the       *)
(* lazily constructed, single-flight McpManager and its cleanup.           *)
(*                                                                         *)
(* JavaScript runs each synchronous stretch of code to completion, so one  *)
(* action is one such stretch: a whole getMcpManager() call up to the      *)
(* point where it returns its promise, the continuation of the async       *)
(* initializer after `await this.mcpManager.initialize()` settles, a whole *)
(* cleanup() call, and a caller's continuation after awaiting its result.  *)
(*                                                                         *)
(* Instances and promises are numbered by construction attempt: attempt k  *)
(* builds instance k (`new McpManager`) and its initializer is promise k.  *)
(***************************************************************************)
EXTENDS Integers, Sequences, FiniteSets, TLC

\* Bounds of the exploration.
MaxCalls == 3
MaxAttempts == 3
MaxCleanups == 2

\* JavaScript null.
Null == 0

VARIABLES
  mcpManager,             \* this.mcpManager: Null or the instance id
  mcpManagerInitPromise,  \* this.mcpManagerInitPromise: Null or the promise id
  promises,               \* promises[k]: the async initializer of attempt k
  teardownCalls,          \* teardownCalls[k]: McpManager.cleanup() calls on instance k
  calls,                  \* one record per getMcpManager() call, in call order
  cleanupLog              \* one record per cleanup() call, in call order

\* OpenAIMessageAdapter runs beside the coordinator: its state is the request
\* in hand, what it has passed to the transport and what it has thrown.
VARIABLES
  adapterPc,              \* "off", "ready" (a request is in hand), then the
                          \* entry point that ran: "generated" or "streamed"
  request,                \* the LLMRequest given to the adapter
  sent,                   \* the params passed to client.chat.completions.create
  thrown,                 \* the message of the Error thrown, "" if none
  wire,                   \* the ChatCompletion or ChatCompletionChunk received
  parsed                  \* the LLMResponse values produced from wire, in order

\* A streamed response: the transport call, the caller's AbortSignal and the
\* async generator streamResponseGenerator between the transport's chunk
\* sequence and the consumer.
VARIABLES
  signal,                 \* options?.signal: "none", "idle" or "raised"
  createOptions,          \* the second argument of client.chat.completions.create
  incoming,               \* the chunks the transport has to deliver, in wire order
  pulled,                 \* next() calls the generator has made on the transport
  requested,              \* next() calls the consumer has made on the generator
  genPc                   \* "none", "created", "awaiting", "yielded", "returned", "threw"

\* SmartComposerPlugin (src/unnamed/part_000) owns the coordinator, keeps the
\* persistent store in fields of its own and notifies settings listeners.
VARIABLES
  mcpCoordinator,         \* this.mcpCoordinator: Null or the number of the coordinator object
  madeBy,                 \* madeBy[k]: the coordinator object that started attempt k
  pluginMcpManager,       \* this.mcpManager of the plugin: Null or the instance id
  dbManager,              \* this.dbManager: Null or the instance id
  dbManagerInitPromise,   \* this.dbManagerInitPromise: Null or the promise id
  dbPromises,             \* dbPromises[k]: the async initializer of DatabaseManager.create call k
  dbCalls,                \* one record per getDbManager() call, in call order
  unloadLog,              \* one record per onunload() call, in call order
  settings,               \* this.settings
  settingsChangeListeners, \* this.settingsChangeListeners, in array order
  registrations,          \* registrations[n]: the listener of the n-th addSettingsChangeListener call
  setCalls,               \* one record per setSettings() call, in call order
  notified,               \* the listener calls made, in call order
  activeAbortControllers, \* this.activeAbortControllers, in insertion order
  isContinuationInProgress, \* this.isContinuationInProgress
  abortCalled,            \* the controllers whose abort() has been called
  cancelLog               \* one record per cancelAllAiTasks() call, in call order

coordVars == <<mcpManager, mcpManagerInitPromise, promises, teardownCalls, calls, cleanupLog>>
dbVars == <<dbManager, dbManagerInitPromise, dbPromises, dbCalls>>
settingsVars == <<settings, settingsChangeListeners, registrations, setCalls, notified>>
taskVars == <<activeAbortControllers, isContinuationInProgress, abortCalled, cancelLog>>
pluginVars ==
  <<mcpCoordinator, madeBy, pluginMcpManager, unloadLog, dbVars, settingsVars, taskVars>>
streamVars == <<signal, createOptions, incoming, pulled, requested, genPc>>
adapterVars == <<adapterPc, request, sent, thrown, wire, parsed, streamVars>>
vars == <<coordVars, adapterVars, pluginVars>>

Attempts == DOMAIN promises

Pending(k) == promises[k].state = "pending"
Fulfilled(k) == promises[k].state = "fulfilled"
Rejected(k) == promises[k].state = "rejected"

\* Construction attempts whose initialize() has not settled yet.
InFlight == {k \in Attempts : Pending(k)}

\* Number of `new McpManager(...)` executions so far.
constructCount == Len(promises)

\* The static call counter of getMcpManager.
getMcpManagerCallCount == Len(calls)

\* The coordinator's lifecycle state as read off its two fields.
CoordState ==
  IF mcpManager = Null /\ mcpManagerInitPromise = Null THEN "Uninitialized"
  ELSE IF mcpManagerInitPromise # Null /\ Pending(mcpManagerInitPromise) THEN "Initializing"
  ELSE "Ready"

\* Completions and cleanups so far: two calls with the same epoch have no
\* construction completion and no cleanup() between them.
Epoch == Cardinality(Attempts \ InFlight) + Len(cleanupLog)

\* Coordinator operations so far (calls, completions, cleanups).
Clock == Len(calls) + Epoch

\* What the promise returned by a getMcpManager() call settles to.
Outcome(c) ==
  IF c.kind = "value" THEN [t |-> "ok", v |-> c.ref]
  ELSE IF Pending(c.ref) THEN [t |-> "pending", v |-> Null]
  ELSE IF Fulfilled(c.ref) THEN [t |-> "ok", v |-> promises[c.ref].value]
  ELSE [t |-> "err", v |-> c.ref]

\* Attempts whose failure some caller has already observed.
ObservedFailures ==
  {k \in Attempts : Rejected(k) /\
     \E i \in DOMAIN calls : calls[i].observed /\ calls[i].kind = "promise" /\ calls[i].ref = k}

\* A coordinator as constructed.
CoordInit ==
  /\ mcpManager = Null
  /\ mcpManagerInitPromise = Null
  /\ promises = <<>>
  /\ teardownCalls = <<>>
  /\ calls = <<>>
  /\ cleanupLog = <<>>

\* No streamed response: the caller gave no signal and there is no generator.
StreamOff ==
  /\ signal = "none"
  /\ createOptions = <<>>
  /\ incoming = <<>>
  /\ pulled = 0
  /\ requested = 0
  /\ genPc = "none"

\* No request has been given to the adapter.
AdapterOff ==
  /\ adapterPc = "off"
  /\ request = <<>>
  /\ sent = <<>>
  /\ thrown = ""
  /\ wire = <<>>
  /\ parsed = <<>>
  /\ StreamOff

\* A plugin as constructed: the field initializers of lines 51-68. settings
\* holds version 0 of the settings.
PluginInit ==
  /\ mcpCoordinator = Null
  /\ madeBy = <<>>
  /\ pluginMcpManager = Null
  /\ dbManager = Null
  /\ dbManagerInitPromise = Null
  /\ dbPromises = <<>>
  /\ dbCalls = <<>>
  /\ unloadLog = <<>>
  /\ settings = 0
  /\ settingsChangeListeners = <<>>
  /\ registrations = <<>>
  /\ setCalls = <<>>
  /\ notified = <<>>
  /\ activeAbortControllers = <<>>
  /\ isContinuationInProgress = FALSE
  /\ abortCalled = {}
  /\ cancelLog = <<>>

Init == CoordInit /\ AdapterOff /\ PluginInit

\* Mutant: neither the stored instance nor the pending promise is consulted.
Branch_NoGuards(mgr, prom) == "construct"

\* The path getMcpManager() takes: return the stored manager, start a
\* construction, or return the promise already stored.
Branch(mgr, prom) ==
  IF mgr # Null THEN "existing"
  ELSE IF prom = Null THEN "construct"
  ELSE "wait"

\* The record of one getMcpManager() call: what it returned and what the
\* coordinator looked like when it was called.
CallRec(kind, ref, constructed, attempt) ==
  [kind |-> kind, ref |-> ref, constructed |-> constructed,
   onState |-> CoordState, attempt |-> attempt, epoch |-> Epoch,
   nRejected |-> Cardinality({k \in Attempts : Rejected(k)}),
   failedSeen |-> ObservedFailures, observed |-> FALSE]

\* getMcpManager(): the synchronous part of the call.
getMcpManager ==
  /\ Len(calls) < MaxCalls
  /\ LET b == Branch(mcpManager, mcpManagerInitPromise)
         inFlight == IF CoordState = "Initializing" THEN mcpManagerInitPromise ELSE Null
     IN
     CASE b = "existing" ->
            /\ calls' = Append(calls, CallRec("value", mcpManager, FALSE, inFlight))
            /\ UNCHANGED <<mcpManager, mcpManagerInitPromise, promises, teardownCalls>>
       [] b = "construct" ->
            /\ Len(promises) < MaxAttempts
            /\ LET n == Len(promises) + 1 IN
               /\ mcpManager' = n
               /\ mcpManagerInitPromise' = n
               /\ promises' = Append(promises, [state |-> "pending", value |-> Null])
               /\ teardownCalls' = Append(teardownCalls, 0)
               /\ calls' = Append(calls, CallRec("promise", n, TRUE, n))
       [] b = "wait" ->
            /\ calls' = Append(calls, CallRec("promise", mcpManagerInitPromise, FALSE, inFlight))
            /\ UNCHANGED <<mcpManager, mcpManagerInitPromise, promises, teardownCalls>>
  /\ UNCHANGED cleanupLog

\* initialize() of attempt k resolves: the initializer returns this.mcpManager
\* as it is at that moment.
initializeResolves(k) ==
  /\ Pending(k)
  /\ promises' = [promises EXCEPT ![k] = [state |-> "fulfilled", value |-> mcpManager]]
  /\ UNCHANGED <<mcpManager, mcpManagerInitPromise, teardownCalls, calls, cleanupLog>>

\* Mutant: the catch block forgets `this.mcpManager = null`.
initializeRejects_KeepsInstance(k) ==
  /\ Pending(k)
  /\ mcpManagerInitPromise' = Null
  /\ promises' = [promises EXCEPT ![k] = [state |-> "rejected", value |-> Null]]
  /\ UNCHANGED <<mcpManager, teardownCalls, calls, cleanupLog>>

\* Mutant: the catch block forgets `this.mcpManagerInitPromise = null`.
initializeRejects_KeepsPromise(k) ==
  /\ Pending(k)
  /\ mcpManager' = Null
  /\ promises' = [promises EXCEPT ![k] = [state |-> "rejected", value |-> Null]]
  /\ UNCHANGED <<mcpManagerInitPromise, teardownCalls, calls, cleanupLog>>

\* initialize() of attempt k rejects: the catch block resets both fields and
\* rethrows, rejecting the initializer's promise. Construction fails through
\* its asynchronous step: the failure reaches the initializer at its await,
\* after getMcpManager() has stored the initializer's promise.
initializeRejects(k) ==
  /\ Pending(k)
  /\ mcpManager' = Null
  /\ mcpManagerInitPromise' = Null
  /\ promises' = [promises EXCEPT ![k] = [state |-> "rejected", value |-> Null]]
  /\ UNCHANGED <<teardownCalls, calls, cleanupLog>>

\* cleanup(): tears the stored manager down, if any, then resets both
\* fields. A teardown that throws leaves cleanup() at the throwing call.
cleanup ==
  /\ Len(cleanupLog) < MaxCleanups
  /\ \E threw \in BOOLEAN :
       /\ threw => mcpManager # Null
       /\ teardownCalls' =
            IF mcpManager # Null
              THEN [teardownCalls EXCEPT ![mcpManager] = @ + 1]
              ELSE teardownCalls
       /\ mcpManager' = IF threw THEN mcpManager ELSE Null
       /\ mcpManagerInitPromise' = IF threw THEN mcpManagerInitPromise ELSE Null
       /\ cleanupLog' = Append(cleanupLog,
            [fresh |-> Len(calls) = 0, held |-> mcpManager, threw |-> threw,
             mgrAfter |-> mcpManager', promAfter |-> mcpManagerInitPromise',
             clock |-> Clock])
  /\ UNCHANGED <<promises, calls>>

\* The caller of call i resumes from its await with the settled outcome.
awaitResult(i) ==
  /\ ~calls[i].observed
  /\ Outcome(calls[i]).t # "pending"
  /\ calls' = [calls EXCEPT ![i].observed = TRUE]
  /\ UNCHANGED <<mcpManager, mcpManagerInitPromise, promises, teardownCalls, cleanupLog>>

Next ==
  \/ getMcpManager /\ UNCHANGED <<adapterVars, pluginVars>>
  \/ \E k \in Attempts : initializeResolves(k) /\ UNCHANGED <<adapterVars, pluginVars>>
  \/ \E k \in Attempts : initializeRejects(k) /\ UNCHANGED <<adapterVars, pluginVars>>
  \/ cleanup /\ UNCHANGED <<adapterVars, pluginVars>>
  \/ \E i \in DOMAIN calls : awaitResult(i) /\ UNCHANGED <<adapterVars, pluginVars>>

Spec == Init /\ [][Next]_vars

(***************************************************************************)
(* Claims about the coordinator.                                           *)
(***************************************************************************)

CallIds == DOMAIN calls

\* Calls issued with no construction completion and no cleanup() since call i.
SameWindow(i) == {j \in CallIds : j >= i /\ calls[j].epoch = calls[i].epoch}

\* C1: single-flight construction. For the getMcpManager() calls issued since
\* the coordinator was Uninitialized, with no cleanup() and no construction
\* completion in between, `new McpManager` ran exactly once: the first of them
\* constructed and none of the later ones did.
C1_SingleFlight ==
  \A i \in CallIds :
    calls[i].onState = "Uninitialized" =>
      Cardinality({j \in SameWindow(i) : calls[j].constructed}) = 1

\* C1 witness: three calls in one window opened on an Uninitialized
\* coordinator, the construction still unsettled.
C1_Witness ==
  \E i \in CallIds :
    /\ calls[i].onState = "Uninitialized"
    /\ Cardinality(SameWindow(i)) >= 3
    /\ Pending(calls[i].ref)

\* Calls associated with attempt k: the one that started it and the ones
\* issued while it was in flight.
CallsDuring(k) == {i \in CallIds : calls[i].attempt = k}

\* C2: all callers that call getMcpManager() while one construction attempt is
\* in flight observe the same outcome: the same instance if the attempt
\* succeeds, the same failure if it fails.
C2_SameOutcome ==
  \A k \in Attempts :
    \A i, j \in CallsDuring(k) :
      (Outcome(calls[i]).t # "pending" /\ Outcome(calls[j]).t # "pending")
        => Outcome(calls[i]) = Outcome(calls[j])

\* C3: a getMcpManager() call issued while the coordinator is Initializing
\* returns the pending promise of the attempt in flight and starts no second
\* construction, so it yields the instance only once initialize() succeeded.
C3_JoinsPendingPromise ==
  \A i \in CallIds :
    calls[i].onState = "Initializing" =>
      /\ calls[i].kind = "promise"
      /\ calls[i].ref = calls[i].attempt
      /\ ~calls[i].constructed

ReadyWith(k) == mcpManager = k /\ mcpManagerInitPromise = k /\ Fulfilled(k)

\* C6: once a construction attempt has succeeded and until cleanup() is
\* called, the stored instance stays, every getMcpManager() returns it and
\* nothing is constructed again.
C6_ReadyIsStable ==
  [][\A k \in Attempts :
       (ReadyWith(k) /\ Len(cleanupLog') = Len(cleanupLog)) =>
         /\ mcpManager' = k
         /\ constructCount' = constructCount
         /\ (Len(calls') > Len(calls) =>
               calls'[Len(calls')].kind = "value" /\ calls'[Len(calls')].ref = k)]_vars

\* C7: after every cleanup(), returned or thrown, the instance reference and
\* the pending promise are both cleared.
C7_CleanupAlwaysResets ==
  \A n \in DOMAIN cleanupLog :
    cleanupLog[n].mgrAfter = Null /\ cleanupLog[n].promAfter = Null

\* C8: cleanup() on a coordinator that was never asked for its manager does
\* not throw, tears nothing down and leaves it Uninitialized; and two
\* cleanup() calls in a row leave the state of one and tear one instance
\* down at most once.
C8_CleanupIdempotent ==
  /\ \A n \in DOMAIN cleanupLog :
       cleanupLog[n].fresh =>
         /\ ~cleanupLog[n].threw
         /\ cleanupLog[n].held = Null
         /\ cleanupLog[n].mgrAfter = Null /\ cleanupLog[n].promAfter = Null
  /\ \A n \in DOMAIN cleanupLog :
       (n > 1 /\ cleanupLog[n].clock = cleanupLog[n - 1].clock + 1) =>
         /\ cleanupLog[n].mgrAfter = cleanupLog[n - 1].mgrAfter
         /\ cleanupLog[n].promAfter = cleanupLog[n - 1].promAfter
         /\ (cleanupLog[n].held # Null => cleanupLog[n].held # cleanupLog[n - 1].held)

\* C9: at every moment at most one construction is in progress.
C9_AtMostOneInFlight == Cardinality(InFlight) <= 1

\* C10: every getMcpManager() that completes without error yields an actual
\* instance, and a call that tracks a construction attempt yields the
\* instance that attempt built.
C10_YieldsOwnInstance ==
  \A i \in CallIds :
    Outcome(calls[i]).t = "ok" =>
      /\ Outcome(calls[i]).v # Null
      /\ (calls[i].kind = "promise" => Outcome(calls[i]).v = calls[i].ref)

(***************************************************************************)
(* Model of OpenAIMessageAdapter (src/src/core/mcp/mcpCoordinator.ts,      *)
(* lines 143-516): request translation and response parsing. The           *)
(* functions are pure; they are operators here, applied by the actions     *)
(* generateResponse and streamResponse to a request drawn by the initial   *)
(* state.                                                                  *)
(***************************************************************************)

\* Longest message list explored.
MaxMsgs == 3

\* JavaScript values, tagged by what typeof and Array.isArray tell apart.
JUndefined == [t |-> "undefined"]
JNull == [t |-> "null"]
JBool(b) == [t |-> "boolean", b |-> b]
JStr(s) == [t |-> "string", s |-> s]
JArr(a) == [t |-> "array", a |-> a]
JObj(o) == [t |-> "object", o |-> o]

\* Array.isArray(v)
IsArray(v) == v.t = "array"

\* `v && typeof v === 'object'`
IsObject(v) == v.t \in {"object", "array"}

\* obj with obj[k] = v, the key added if it is not there.
Put(obj, k, v) == [x \in DOMAIN obj \cup {k} |-> IF x = k THEN v ELSE obj[x]]

\* `delete obj[k]`
Delete(obj, k) == [x \in DOMAIN obj \ {k} |-> obj[x]]

\* `obj[k]`: undefined when the key is missing.
Get(obj, k) == IF k \in DOMAIN obj THEN obj[k] ELSE JUndefined

\* Mutant: the left operand is passed on even when it is null or undefined.
Coalesce_PassThrough(v, d) == v

\* `v ?? d`
Coalesce(v, d) == IF v \in {JUndefined, JNull} THEN d ELSE v

\* What JSON.stringify keeps of an object: the keys whose value is not undefined.
WireKeys(obj) == {k \in DOMAIN obj : obj[k] # JUndefined}

\* parseRequestMessage: one RequestMessage to its ChatCompletionMessageParam,
\* or the Error it throws.
parseRequestMessage(message) ==
  CASE message.role = "user" ->
         [ok |-> TRUE,
          msg |-> [role |-> "user",
                   content |->
                     IF IsArray(message.content)
                       THEN JArr([i \in DOMAIN message.content.a |->
                              LET part == message.content.a[i] IN
                              IF part.type = "text"
                                THEN [type |-> "text", text |-> part.text]
                                ELSE [type |-> "image_url", image_url |-> part.image_url]])
                       ELSE message.content]]
    [] message.role = "assistant" ->
         IF IsArray(message.content)
           THEN [ok |-> FALSE, error |-> "Assistant message should be a string"]
           ELSE [ok |-> TRUE,
                 msg |-> [role |-> "assistant",
                          content |-> message.content,
                          tool_calls |->
                            IF message.tool_calls \in {JUndefined, JNull}
                              THEN JUndefined
                              ELSE JArr([i \in DOMAIN message.tool_calls.a |->
                                     LET toolCall == message.tool_calls.a[i] IN
                                     [id |-> toolCall.id,
                                      function |->
                                        [arguments |-> Coalesce(toolCall.arguments, JStr("{}")),
                                         name |-> toolCall.name],
                                      type |-> "function"]])]]
    [] message.role = "system" ->
         IF IsArray(message.content)
           THEN [ok |-> FALSE, error |-> "System message should be a string"]
           ELSE [ok |-> TRUE, msg |-> [role |-> "system", content |-> message.content]]
    [] message.role = "tool" ->
         [ok |-> TRUE,
          msg |-> [role |-> "tool",
                   content |-> message.content,
                   tool_call_id |-> message.tool_call.id]]

\* The tool_call_id values of the translated tool messages.
ToolIds(parsedMessages) ==
  {parsedMessages[i].tool_call_id :
     i \in {j \in DOMAIN parsedMessages : parsedMessages[j].role = "tool"}}

\* Mutant: an assistant message left without a matching call keeps an empty list.
RepairToolCalls_KeepsEmptyList(pm, toolIds) ==
  IF pm.role = "assistant" /\ IsArray(pm.tool_calls)
    THEN [pm EXCEPT !.tool_calls =
            JArr(SelectSeq(pm.tool_calls.a, LAMBDA tc : tc.id \in toolIds))]
    ELSE pm

\* Mutant: the calls are not filtered against the tool messages.
RepairToolCalls_NoFilter(pm, toolIds) ==
  IF pm.role = "assistant" /\ IsArray(pm.tool_calls)
    THEN IF Len(pm.tool_calls.a) > 0 THEN pm ELSE Delete(pm, "tool_calls")
    ELSE pm

\* The body of the repair loop for one translated message: an assistant's
\* tool_calls keep the calls answered by a tool message; the field is deleted
\* when none is.
RepairToolCalls(pm, toolIds) ==
  IF pm.role = "assistant" /\ IsArray(pm.tool_calls)
    THEN LET filtered == SelectSeq(pm.tool_calls.a, LAMBDA tc : tc.id \in toolIds) IN
         IF Len(filtered) > 0
           THEN [pm EXCEPT !.tool_calls = JArr(filtered)]
           ELSE Delete(pm, "tool_calls")
    ELSE pm

\* Mutant: the tools of extra_body are set but tool_choice stays.
OverrideTools_KeepsToolChoice(params, tools) ==
  IF IsArray(tools) THEN Put(params, "tools", tools) ELSE params

\* An array under extra_body.tools replaces params.tools and removes
\* tool_choice.
OverrideTools(params, tools) ==
  IF IsArray(tools)
    THEN Delete(Put(params, "tools", tools), "tool_choice")
    ELSE params

\* Mutant: the rest of extra_body is attached even when it is empty.
AttachRest_EvenIfEmpty(params, otherExtraBody) ==
  Put(params, "extra_body", JObj(otherExtraBody))

\* The rest of extra_body goes under params.extra_body if it has any key.
AttachRest(params, otherExtraBody) ==
  IF DOMAIN otherExtraBody # {}
    THEN Put(params, "extra_body", JObj(otherExtraBody))
    ELSE params

\* Mutant: only the snake_case name is read.
ThinkingConfig_SnakeOnly(req) ==
  IF IsObject(req.thinking_config) THEN req.thinking_config ELSE JBool(FALSE)

\* The thinkingConfig constant of attachVendorExtensions: the request's
\* thinking_config if it is an object, else its thinkingConfig if that is
\* one, else a falsy value.
ThinkingConfig(req) ==
  IF IsObject(req.thinking_config) THEN req.thinking_config
  ELSE IF IsObject(req.thinkingConfig) THEN req.thinkingConfig
  ELSE JBool(FALSE)

\* attachVendorExtensions: thinking, thinking_config / thinkingConfig,
\* reasoning and extra_body of the request.
attachVendorExtensions(params, req) ==
  LET p1 == IF IsObject(req.thinking) THEN Put(params, "thinking", req.thinking) ELSE params
      thinkingConfig == ThinkingConfig(req)
      p2 == IF IsObject(thinkingConfig) THEN Put(p1, "thinking_config", thinkingConfig) ELSE p1
      p3 == IF IsObject(req.reasoning) THEN Put(p2, "reasoning", req.reasoning) ELSE p2
  IN
  IF IsObject(req.extra_body)
    THEN LET bag == req.extra_body.o
             tools == IF "tools" \in DOMAIN bag THEN bag.tools ELSE JUndefined
             otherExtraBody == Delete(bag, "tools")
         IN AttachRest(OverrideTools(p3, tools), otherExtraBody)
    ELSE p3

\* Mutant: the streaming keys are added to every payload.
StreamKeys_Always(params, stream) ==
  Put(Put(params, "stream", JBool(TRUE)),
      "stream_options", JObj([include_usage |-> JBool(TRUE)]))

\* The two keys only the streaming params literal has.
StreamKeys(params, stream) ==
  IF stream
    THEN Put(Put(params, "stream", JBool(TRUE)),
             "stream_options", JObj([include_usage |-> JBool(TRUE)]))
    ELSE params

\* Mutant: the translation errors are swallowed and the message passed on.
TranslateAll_Lenient(messages) ==
  [ok |-> TRUE,
   msgs |-> [i \in DOMAIN messages |->
               IF parseRequestMessage(messages[i]).ok
                 THEN parseRequestMessage(messages[i]).msg
                 ELSE [role |-> messages[i].role, content |-> messages[i].content]]]

\* Mutant: tool messages that no assistant tool call references are dropped
\* before translation.
TranslateAll_DropsOrphanTools(messages) ==
  LET callers == {x \in DOMAIN messages :
                    messages[x].role = "assistant" /\ IsArray(messages[x].tool_calls)}
      called == UNION {{messages[x].tool_calls.a[j].id :
                          j \in DOMAIN messages[x].tool_calls.a} : x \in callers}
      kept == SelectSeq(messages, LAMBDA m : m.role # "tool" \/ m.tool_call.id \in called)
      results == [i \in DOMAIN kept |-> parseRequestMessage(kept[i])]
      bad == {i \in DOMAIN kept : ~results[i].ok}
  IN IF bad = {}
       THEN [ok |-> TRUE, msgs |-> [i \in DOMAIN kept |-> results[i].msg]]
       ELSE [ok |-> FALSE, error |-> results[CHOOSE i \in bad : \A j \in bad : i <= j].error]

\* request.messages.map(parseRequestMessage): the translated list, or the
\* Error of the first message that throws.
TranslateAll(messages) ==
  LET results == [i \in DOMAIN messages |-> parseRequestMessage(messages[i])]
      bad == {i \in DOMAIN messages : ~results[i].ok}
  IN IF bad = {}
       THEN [ok |-> TRUE, msgs |-> [i \in DOMAIN messages |-> results[i].msg]]
       ELSE [ok |-> FALSE, error |-> results[CHOOSE i \in bad : \A j \in bad : i <= j].error]

\* typeof v === 'number' values.
JNum(n) == [t |-> "number", n |-> n]

\* Mutant: an unset sampling parameter is defaulted to null.
ParamsLiteral_NullsUnset(req, parsedMessages) ==
  [model |-> req.model,
   tools |-> req.tools,
   tool_choice |-> req.tool_choice,
   reasoning_effort |-> req.reasoning_effort,
   web_search_options |-> req.web_search_options,
   messages |-> JArr(parsedMessages),
   max_tokens |-> Coalesce(req.max_tokens, JNull),
   temperature |-> Coalesce(req.temperature, JNull),
   top_p |-> Coalesce(req.top_p, JNull),
   frequency_penalty |-> Coalesce(req.frequency_penalty, JNull),
   presence_penalty |-> Coalesce(req.presence_penalty, JNull),
   logit_bias |-> Coalesce(req.logit_bias, JNull),
   prediction |-> Coalesce(req.prediction, JNull)]

\* The keys both params literals share: each is the request's field of the
\* same name, the messages are the translated ones.
ParamsLiteral(req, parsedMessages) ==
  [model |-> req.model,
   tools |-> req.tools,
   tool_choice |-> req.tool_choice,
   reasoning_effort |-> req.reasoning_effort,
   web_search_options |-> req.web_search_options,
   messages |-> JArr(parsedMessages),
   max_tokens |-> req.max_tokens,
   temperature |-> req.temperature,
   top_p |-> req.top_p,
   frequency_penalty |-> req.frequency_penalty,
   presence_penalty |-> req.presence_penalty,
   logit_bias |-> req.logit_bias,
   prediction |-> req.prediction]

\* buildChatCompletionCreateParams: the params object, or the Error thrown.
buildChatCompletionCreateParams(req, stream) ==
  LET translated == TranslateAll(req.messages) IN
  IF ~translated.ok THEN translated
  ELSE
    LET toolIds == ToolIds(translated.msgs)
        parsedMessages ==
          [i \in DOMAIN translated.msgs |-> RepairToolCalls(translated.msgs[i], toolIds)]
        params == ParamsLiteral(req, parsedMessages)
    IN [ok |-> TRUE, params |-> attachVendorExtensions(StreamKeys(params, stream), req)]

\* Mutant: the caller's signal is not handed to the transport.
CreateOptions_NoSignal(sig) == [signal |-> FALSE]

\* `{ signal: options?.signal }`: whether the transport is given the caller's
\* AbortSignal.
CreateOptions(sig) == [signal |-> sig # "none"]

\* generateResponse / streamResponse up to their await: the params are built
\* as the argument of client.chat.completions.create, so an Error thrown while
\* building leaves the transport uncalled.
CreateCompletion(stream) ==
  /\ adapterPc = "ready"
  /\ LET built == buildChatCompletionCreateParams(request, stream) IN
     IF built.ok
       THEN /\ sent' = Append(sent, built.params)
            /\ createOptions' = CreateOptions(signal)
            /\ thrown' = thrown
       ELSE /\ sent' = sent
            /\ createOptions' = createOptions
            /\ thrown' = built.error
  /\ adapterPc' = IF stream THEN "streamed" ELSE "generated"
  /\ UNCHANGED <<request, wire, parsed, coordVars, pluginVars>>
  /\ UNCHANGED <<signal, incoming, pulled, requested, genPc>>

generateResponse == CreateCompletion(FALSE)

streamResponse == CreateCompletion(TRUE)

AdapterNext ==
  \/ generateResponse
  \/ streamResponse

\* The requests explored.
TextContent == JStr("hello")

PartsContent ==
  JArr(<<[type |-> "text", text |-> "look"],
         [type |-> "image_url", image_url |-> [url |-> "img"]]>>)

ToolCallIdSet == {"call_1", "call_2"}

\* A RequestToolCall; the first one carries no arguments.
ToolCall(id) ==
  [id |-> id, name |-> "search",
   arguments |-> IF id = "call_1" THEN JUndefined ELSE JStr("{q}")]

ToolCallLists ==
  {JUndefined} \cup
  {JArr([i \in DOMAIN ids |-> ToolCall(ids[i])]) :
     ids \in UNION {[1..n -> ToolCallIdSet] : n \in 0..2}}

MessageChoices ==
  {[role |-> "system", content |-> c] : c \in {TextContent, PartsContent}}
  \cup {[role |-> "user", content |-> c] : c \in {TextContent, PartsContent}}
  \cup {[role |-> "assistant", content |-> TextContent, tool_calls |-> tcs] :
          tcs \in ToolCallLists}
  \cup {[role |-> "assistant", content |-> PartsContent, tool_calls |-> JUndefined]}
  \cup {[role |-> "tool", content |-> JStr("result"), tool_call |-> [id |-> id]] :
          id \in ToolCallIdSet}

MessageLists == UNION {[1..n -> MessageChoices] : n \in 0..MaxMsgs}

\* A request with the given messages and every optional field unset.
BaseRequest(messages) ==
  [model |-> JStr("gpt"), messages |-> messages,
   tools |-> JUndefined, tool_choice |-> JUndefined,
   reasoning_effort |-> JUndefined, web_search_options |-> JUndefined,
   max_tokens |-> JUndefined, temperature |-> JUndefined, top_p |-> JUndefined,
   frequency_penalty |-> JUndefined, presence_penalty |-> JUndefined,
   logit_bias |-> JUndefined, prediction |-> JUndefined,
   thinking |-> JUndefined, thinking_config |-> JUndefined,
   thinkingConfig |-> JUndefined, reasoning |-> JUndefined,
   extra_body |-> JUndefined]

\* The adapter is handed a request whose message list is any of MessageLists.
InitMessages ==
  /\ CoordInit
  /\ PluginInit
  /\ adapterPc = "ready"
  /\ request \in {BaseRequest(ms) : ms \in MessageLists}
  /\ sent = <<>>
  /\ thrown = ""
  /\ wire = <<>>
  /\ parsed = <<>>
  /\ StreamOff

SpecMessages == InitMessages /\ [][AdapterNext]_vars

\* typeof v === 'string'
IsString(v) == v.t = "string"

\* Boolean(v) for the values a reasoning detail maps to: a string or null.
Truthy(v) == IsString(v) /\ v.s # ""

\* Mutant: the parts are run together without a separator.
RECURSIVE JoinLines_NoSeparator(_)
JoinLines_NoSeparator(parts) ==
  IF Len(parts) = 0 THEN ""
  ELSE parts[1].s \o JoinLines_NoSeparator(Tail(parts))

\* parts.join('\n')
RECURSIVE JoinLines(_)
JoinLines(parts) ==
  IF Len(parts) = 0 THEN ""
  ELSE IF Len(parts) = 1 THEN parts[1].s
  ELSE parts[1].s \o "\n" \o JoinLines(Tail(parts))

\* The callback of details.map: the text of a reasoning.text entry, the
\* summary of a reasoning.summary entry, null for anything else.
DetailPart(detail) ==
  IF detail.t # "object" THEN JNull
  ELSE LET record == detail.o IN
       IF Get(record, "type") = JStr("reasoning.text") /\ IsString(Get(record, "text"))
         THEN Get(record, "text")
       ELSE IF Get(record, "type") = JStr("reasoning.summary")
                 /\ IsString(Get(record, "summary"))
         THEN Get(record, "summary")
       ELSE JNull

\* The third source: the joined parts of reasoning_details, undefined when
\* it is no array or yields no part.
FromDetails(obj) ==
  IF "reasoning_details" \in DOMAIN obj /\ IsArray(obj.reasoning_details)
    THEN LET details == obj.reasoning_details.a
             parts == SelectSeq([i \in DOMAIN details |-> DetailPart(details[i])],
                                LAMBDA part : Truthy(part))
         IN IF Len(parts) > 0 THEN JStr(JoinLines(parts)) ELSE JUndefined
    ELSE JUndefined

\* Mutant: reasoning_details is consulted before the reasoning string.
extractReasoningContent_DetailsFirst(source) ==
  IF source.t # "object" THEN JUndefined
  ELSE LET obj == source.o IN
       IF "reasoning_content" \in DOMAIN obj /\ IsString(obj.reasoning_content)
         THEN obj.reasoning_content
       ELSE IF FromDetails(obj) # JUndefined
         THEN FromDetails(obj)
       ELSE IF "reasoning" \in DOMAIN obj /\ IsString(obj.reasoning)
         THEN obj.reasoning
       ELSE JUndefined

\* extractReasoningContent: reasoning_content if it is a string, else
\* reasoning if it is a string, else the parts of reasoning_details.
extractReasoningContent(source) ==
  IF source.t # "object" THEN JUndefined
  ELSE LET obj == source.o IN
       IF "reasoning_content" \in DOMAIN obj /\ IsString(obj.reasoning_content)
         THEN obj.reasoning_content
       ELSE IF "reasoning" \in DOMAIN obj /\ IsString(obj.reasoning)
         THEN obj.reasoning
       ELSE FromDetails(obj)

\* parseNonStreamingResponse
parseNonStreamingResponseOf(response) ==
  [id |-> response.id,
   choices |-> [i \in DOMAIN response.choices |->
      LET choice == response.choices[i] IN
      [finish_reason |-> choice.finish_reason,
       message |-> [content |-> Get(choice.message, "content"),
                    reasoning |-> extractReasoningContent(JObj(choice.message)),
                    role |-> Get(choice.message, "role"),
                    tool_calls |-> Get(choice.message, "tool_calls")]]],
   created |-> response.created,
   model |-> response.model,
   object |-> "chat.completion",
   system_fingerprint |-> response.system_fingerprint,
   usage |-> response.usage]

\* parseStreamingResponseChunk
parseStreamingResponseChunkOf(chunk) ==
  [id |-> chunk.id,
   choices |-> [i \in DOMAIN chunk.choices |->
      LET choice == chunk.choices[i] IN
      [finish_reason |-> Coalesce(choice.finish_reason, JNull),
       delta |-> [content |-> Coalesce(Get(choice.delta, "content"), JNull),
                  reasoning |-> extractReasoningContent(JObj(choice.delta)),
                  role |-> Get(choice.delta, "role"),
                  tool_calls |-> Get(choice.delta, "tool_calls")]]],
   created |-> chunk.created,
   model |-> chunk.model,
   object |-> "chat.completion.chunk",
   system_fingerprint |-> chunk.system_fingerprint,
   usage |-> Coalesce(chunk.usage, JUndefined)]

\* generateResponse after its await: the ChatCompletion is parsed and returned.
parseNonStreamingResponse ==
  /\ adapterPc = "generated"
  /\ thrown = ""
  /\ parsed = <<>>
  /\ parsed' = <<parseNonStreamingResponseOf(wire)>>
  /\ UNCHANGED <<adapterPc, request, sent, thrown, wire, coordVars, pluginVars, streamVars>>

\* One step of streamResponseGenerator: the chunk is parsed and yielded.
parseStreamingResponseChunk ==
  /\ adapterPc = "streamed"
  /\ thrown = ""
  /\ parsed = <<>>
  /\ parsed' = <<parseStreamingResponseChunkOf(wire)>>
  /\ UNCHANGED <<adapterPc, request, sent, thrown, wire, coordVars, pluginVars, streamVars>>

ParseNext ==
  \/ parseNonStreamingResponse
  \/ parseStreamingResponseChunk

\* Longest reasoning_details array explored.
MaxDetails == 2

\* The wire objects explored. Absent marks a key the object does not have.
Absent == [t |-> "absent"]

\* obj without the keys marked Absent.
Present(obj) == [k \in {x \in DOMAIN obj : obj[x] # Absent} |-> obj[k]]

DetailChoices ==
  {JNull,
   JObj([type |-> JStr("reasoning.text"), text |-> JStr("a")]),
   JObj([type |-> JStr("reasoning.text"), text |-> JStr("")]),
   JObj([type |-> JStr("reasoning.text")]),
   JObj([type |-> JStr("reasoning.summary"), summary |-> JStr("s")]),
   JObj([type |-> JStr("reasoning.encrypted"), data |-> JStr("x")])}

DetailLists == UNION {[1..n -> DetailChoices] : n \in 0..MaxDetails}

\* The message of a ChatCompletion choice or the delta of a chunk choice.
WireBodies ==
  {Present([role |-> JStr("assistant"), content |-> c,
            reasoning_content |-> rc, reasoning |-> r, reasoning_details |-> d]) :
     c \in {Absent, JNull, JStr("hi")},
     rc \in {Absent, JNull, JStr(""), JStr("rc")},
     r \in {Absent, JNull, JStr(""), JStr("raw")},
     d \in {Absent} \cup {JArr(ds) : ds \in DetailLists}}

FinishReasons == {JUndefined, JNull, JStr("stop")}

Usages == {JNull, JObj([total_tokens |-> JStr("7")])}

\* A ChatCompletionChunk with one choice.
WireChunks ==
  {[id |-> JStr("id"), created |-> JStr("now"), model |-> JStr("gpt"),
    system_fingerprint |-> JUndefined, usage |-> u,
    choices |-> <<[finish_reason |-> fr, delta |-> b]>>] :
     u \in Usages, fr \in FinishReasons, b \in WireBodies}

\* A ChatCompletion with one choice.
WireCompletions ==
  {[id |-> JStr("id"), created |-> JStr("now"), model |-> JStr("gpt"),
    system_fingerprint |-> JUndefined, usage |-> u,
    choices |-> <<[finish_reason |-> fr, message |-> b]>>] :
     u \in Usages, fr \in FinishReasons, b \in WireBodies}

\* The transport has answered a request without messages: a ChatCompletion to
\* generateResponse, a first chunk to streamResponse.
InitParse ==
  /\ CoordInit
  /\ PluginInit
  /\ StreamOff
  /\ request = BaseRequest(<<>>)
  /\ thrown = ""
  /\ parsed = <<>>
  /\ \E stream \in BOOLEAN :
       /\ adapterPc = IF stream THEN "streamed" ELSE "generated"
       /\ sent = <<buildChatCompletionCreateParams(request, stream).params>>
       /\ wire \in IF stream THEN WireChunks ELSE WireCompletions

SpecParse == InitParse /\ [][ParseNext]_vars

(***************************************************************************)
(* Claims about the adapter.                                               *)
(***************************************************************************)

\* The ids answered by a tool message of the request, wherever it stands.
RequestToolIds ==
  {request.messages[i].tool_call.id :
     i \in {j \in DOMAIN request.messages : request.messages[j].role = "tool"}}

\* The translated message carries a tool_calls field on the wire.
HasToolCalls(pm) == "tool_calls" \in DOMAIN pm /\ pm.tool_calls # JUndefined

\* The ids of a list of tool calls, in order.
CallIdsOf(toolCalls) == [j \in DOMAIN toolCalls |-> toolCalls[j].id]

\* C11: in every payload built, every entry of an assistant message's
\* tool_calls has the id of some tool message of the same request.
C11_NoDanglingToolCalls ==
  \A n \in DOMAIN sent :
    \A i \in DOMAIN sent[n].messages.a :
      LET pm == sent[n].messages.a[i] IN
      (pm.role = "assistant" /\ HasToolCalls(pm)) =>
        \A j \in DOMAIN pm.tool_calls.a : pm.tool_calls.a[j].id \in RequestToolIds

\* C11 witness: an assistant message calling call_1 and call_2, whose only
\* tool message (for call_2) stands before it, was sent with call_2 alone.
C11_Witness ==
  /\ Len(sent) = 1
  /\ \E i, k \in DOMAIN request.messages :
       /\ k < i
       /\ request.messages[k].role = "tool"
       /\ request.messages[i].role = "assistant"
       /\ request.messages[i].tool_calls # JUndefined
       /\ CallIdsOf(request.messages[i].tool_calls.a) = <<"call_1", "call_2">>
       /\ RequestToolIds = {"call_2"}
       /\ HasToolCalls(sent[1].messages.a[i])
       /\ CallIdsOf(sent[1].messages.a[i].tool_calls.a) = <<"call_2">>

\* The members of ids that are in S, in their order.
RECURSIVE KeepIn(_, _)
KeepIn(ids, S) ==
  IF ids = <<>> THEN <<>>
  ELSE (IF Head(ids) \in S THEN <<Head(ids)>> ELSE <<>>) \o KeepIn(Tail(ids), S)

\* The ids an assistant message of the request calls, in order.
RequestedIds(rm) ==
  IF rm.tool_calls = JUndefined THEN <<>> ELSE CallIdsOf(rm.tool_calls.a)

\* C12: an assistant message none of whose tool calls is answered by a tool
\* message is sent without a tool_calls field, not with an empty list; one
\* with answered calls is sent with exactly those calls, in their order.
C12_ToolCallsOmittedOrExact ==
  \A n \in DOMAIN sent :
    \A i \in DOMAIN request.messages :
      LET rm == request.messages[i]
          pm == sent[n].messages.a[i]
      IN
      rm.role = "assistant" =>
        LET matching == KeepIn(RequestedIds(rm), RequestToolIds) IN
        IF matching = <<>>
          THEN ~HasToolCalls(pm)
          ELSE /\ HasToolCalls(pm)
               /\ CallIdsOf(pm.tool_calls.a) = matching
               /\ \A j \in DOMAIN pm.tool_calls.a :
                    /\ pm.tool_calls.a[j].type = "function"
                    /\ pm.tool_calls.a[j].function.name = "search"

\* C12 witness: with call_2 alone answered, one assistant message calling
\* call_1 was sent without the field and another calling call_2, call_1
\* was sent with call_2.
C12_Witness ==
  /\ Len(sent) = 1
  /\ RequestToolIds = {"call_2"}
  /\ \E i, k \in DOMAIN request.messages :
       /\ request.messages[i].role = "assistant"
       /\ RequestedIds(request.messages[i]) = <<"call_1">>
       /\ "tool_calls" \notin DOMAIN sent[1].messages.a[i]
       /\ request.messages[k].role = "assistant"
       /\ RequestedIds(request.messages[k]) = <<"call_2", "call_1">>
       /\ CallIdsOf(sent[1].messages.a[k].tool_calls.a) = <<"call_2">>

\* The wire message or delta that was parsed, and what it was parsed to.
WireBody ==
  IF adapterPc = "streamed" THEN wire.choices[1].delta ELSE wire.choices[1].message

ParsedBody ==
  IF adapterPc = "streamed" THEN parsed[1].choices[1].delta ELSE parsed[1].choices[1].message

IsNonEmptyString(v) == v.t = "string" /\ v.s # ""

\* C13: reasoning extraction tries reasoning_content, then reasoning, then
\* reasoning_details, and returns the first that matches: a string
\* reasoning_content wins, else a string reasoning wins even over a
\* reasoning_details array that has parts, and without either string and
\* without the array nothing is returned.
C13_ExtractionOrder ==
  parsed # <<>> =>
    LET rc == Get(WireBody, "reasoning_content")
        r == Get(WireBody, "reasoning")
    IN
    /\ IsString(rc) => ParsedBody.reasoning = rc
    /\ (~IsString(rc) /\ IsString(r)) => ParsedBody.reasoning = r
    /\ (~IsString(rc) /\ ~IsString(r) /\ "reasoning_details" \notin DOMAIN WireBody)
         => ParsedBody.reasoning = JUndefined

\* C13 witness: a delta with the reasoning string "raw" and a
\* reasoning_details array holding a text entry was parsed to "raw".
C13_Witness ==
  /\ parsed # <<>>
  /\ adapterPc = "streamed"
  /\ ~IsString(Get(WireBody, "reasoning_content"))
  /\ Get(WireBody, "reasoning") = JStr("raw")
  /\ "reasoning_details" \in DOMAIN WireBody
  /\ \E i \in DOMAIN WireBody.reasoning_details.a :
       WireBody.reasoning_details.a[i] =
         JObj([type |-> JStr("reasoning.text"), text |-> JStr("a")])
  /\ ParsedBody.reasoning = JStr("raw")

\* C14: extraction returns the first non-empty match: an empty
\* reasoning_content (or reasoning) string does not count, and the next source
\* is tried.
C14_FirstNonEmptyMatch ==
  parsed # <<>> =>
    LET rc == Get(WireBody, "reasoning_content")
        r == Get(WireBody, "reasoning")
    IN
    /\ IsNonEmptyString(rc) => ParsedBody.reasoning = rc
    /\ (~IsNonEmptyString(rc) /\ IsNonEmptyString(r)) => ParsedBody.reasoning = r

\* The string a reasoning_details entry holds under its variant, if any.
VariantStrings(detail) ==
  IF detail.t # "object" THEN <<>>
  ELSE IF Get(detail.o, "type") = JStr("reasoning.text") /\ Get(detail.o, "text").t = "string"
    THEN <<detail.o.text.s>>
  ELSE IF Get(detail.o, "type") = JStr("reasoning.summary")
            /\ Get(detail.o, "summary").t = "string"
    THEN <<detail.o.summary.s>>
  ELSE <<>>

\* The strings of all entries that match a variant, in array order.
RECURSIVE AllVariantStrings(_)
AllVariantStrings(details) ==
  IF details = <<>> THEN <<>>
  ELSE VariantStrings(Head(details)) \o AllVariantStrings(Tail(details))

\* lines[1] "\n" lines[2] "\n" ...
RECURSIVE NewlineJoined(_)
NewlineJoined(lines) ==
  IF Len(lines) = 1 THEN lines[1]
  ELSE lines[1] \o "\n" \o NewlineJoined(Tail(lines))

\* Extraction has fallen to reasoning_details: neither string field matched
\* and the array is there.
FellToDetails ==
  /\ parsed # <<>>
  /\ ~IsString(Get(WireBody, "reasoning_content"))
  /\ ~IsString(Get(WireBody, "reasoning"))
  /\ "reasoning_details" \in DOMAIN WireBody

\* C15 as stated: the result is the strings of all text and summary entries
\* joined with newlines in array order, and nothing when the array is empty
\* or no entry matches a variant.
C15_AllEntriesJoined ==
  FellToDetails =>
    LET all == AllVariantStrings(WireBody.reasoning_details.a) IN
    IF all = <<>>
      THEN ParsedBody.reasoning = JUndefined
      ELSE ParsedBody.reasoning = JStr(NewlineJoined(all))

\* C15 as amended: the result is the non-empty strings of the text and
\* summary entries joined with newlines in array order, and nothing when no
\* entry yields a non-empty string.
C15_NonEmptyEntriesJoined ==
  FellToDetails =>
    LET kept == SelectSeq(AllVariantStrings(WireBody.reasoning_details.a),
                          LAMBDA str : str # "")
    IN
    IF kept = <<>>
      THEN ParsedBody.reasoning = JUndefined
      ELSE ParsedBody.reasoning = JStr(NewlineJoined(kept))

\* C15 witness: a text entry and a summary entry were joined to "a\ns".
C15_Witness ==
  /\ FellToDetails
  /\ WireBody.reasoning_details.a =
       <<JObj([type |-> JStr("reasoning.text"), text |-> JStr("a")]),
         JObj([type |-> JStr("reasoning.summary"), summary |-> JStr("s")])>>
  /\ ParsedBody.reasoning = JStr("a\ns")

\* C16: a chunk choice whose finish_reason is null or missing is parsed to a
\* choice whose finish_reason is present and null; any other finish_reason is
\* passed through.
C16_FinishReasonNull ==
  (parsed # <<>> /\ adapterPc = "streamed") =>
    LET fr == wire.choices[1].finish_reason
        out == parsed[1].choices[1]
    IN
    /\ "finish_reason" \in DOMAIN out
    /\ fr \in {JNull, JUndefined} => out.finish_reason = JNull
    /\ fr \notin {JNull, JUndefined} => out.finish_reason = fr

\* C16 witness: a chunk without finish_reason was parsed to finish_reason null.
C16_Witness ==
  /\ parsed # <<>>
  /\ adapterPc = "streamed"
  /\ wire.choices[1].finish_reason = JUndefined
  /\ parsed[1].choices[1].finish_reason = JNull

\* Some assistant or system message of the request carries content parts.
HasPartsOutsideUser ==
  \E i \in DOMAIN request.messages :
    /\ request.messages[i].role \in {"assistant", "system"}
    /\ request.messages[i].content.t = "array"

\* C19: once generateResponse or streamResponse has run, a request with an
\* assistant or system message whose content is a sequence of parts has
\* produced an Error, no params and no call of the transport; any other
\* request, user messages with content parts included, has produced one call
\* and no Error.
C19_PartsRejectedOutsideUser ==
  adapterPc \in {"generated", "streamed"} =>
    IF HasPartsOutsideUser
      THEN /\ thrown \in {"Assistant message should be a string",
                          "System message should be a string"}
           /\ sent = <<>>
      ELSE /\ thrown = ""
           /\ Len(sent) = 1
           /\ Len(sent[1].messages.a) = Len(request.messages)

\* C19 witness: a request with a user message and an assistant message, both
\* with content parts, failed on the assistant message without a call.
C19_Witness ==
  /\ adapterPc \in {"generated", "streamed"}
  /\ \E i \in DOMAIN request.messages :
       request.messages[i].role = "user" /\ request.messages[i].content.t = "array"
  /\ \E i \in DOMAIN request.messages :
       request.messages[i].role = "assistant" /\ request.messages[i].content.t = "array"
  /\ \A i \in DOMAIN request.messages : request.messages[i].role # "system"
  /\ thrown = "Assistant message should be a string"
  /\ sent = <<>>

\* C20: the params handed to the transport carry stream: true and
\* stream_options {include_usage: true} when streamResponse built them, and
\* neither key when generateResponse built them.
C20_StreamKeysIffStreaming ==
  sent # <<>> =>
    IF adapterPc = "streamed"
      THEN /\ "stream" \in DOMAIN sent[1]
           /\ sent[1].stream = JBool(TRUE)
           /\ "stream_options" \in DOMAIN sent[1]
           /\ sent[1].stream_options = JObj([include_usage |-> JBool(TRUE)])
      ELSE /\ "stream" \notin DOMAIN sent[1]
           /\ "stream_options" \notin DOMAIN sent[1]

\* C20 witness: generateResponse made a call whose params have no stream key.
C20_Witness ==
  /\ adapterPc = "generated"
  /\ sent # <<>>
  /\ "stream" \notin DOMAIN sent[1]
  /\ request.messages # <<>>

\* The requests explored for the vendor extensions: one user message, and
\* every combination of the canonical tools, tool_choice, the three opaque
\* extension objects and the extra_body bag.
CanonicalTools ==
  JArr(<<JObj([type |-> JStr("function"), name |-> JStr("search")])>>)

OverrideToolsChoices ==
  {Absent, JNull, JStr("all"), JArr(<<>>),
   JArr(<<JObj([type |-> JStr("function"), name |-> JStr("fetch")])>>)}

ExtraBodyBags ==
  {Present([tools |-> t, top_k |-> k, seed |-> sd]) :
     t \in OverrideToolsChoices, k \in {Absent, JStr("40")}, sd \in {Absent, JNull}}

ExtraBodyChoices == {JUndefined, JNull} \cup {JObj(bag) : bag \in ExtraBodyBags}

ExtensionRequests ==
  {[BaseRequest(<<[role |-> "user", content |-> TextContent]>>) EXCEPT
      !.tools = tl, !.tool_choice = tc, !.thinking = th,
      !.thinking_config = tcfg, !.thinkingConfig = tCfg,
      !.reasoning = rs, !.extra_body = eb] :
     tl \in {JUndefined, CanonicalTools},
     tc \in {JUndefined, JStr("auto")},
     th \in {JUndefined, JObj([type |-> JStr("enabled")])},
     tcfg \in {JUndefined, JNull, JStr("on"), JObj([budget |-> JStr("snake")])},
     tCfg \in {JUndefined, JStr("on"), JObj([budget |-> JStr("camel")])},
     rs \in {JUndefined, JObj([effort |-> JStr("high")])},
     eb \in ExtraBodyChoices}

\* The adapter is handed any of ExtensionRequests.
InitExtensions ==
  /\ CoordInit
  /\ PluginInit
  /\ adapterPc = "ready"
  /\ request \in ExtensionRequests
  /\ sent = <<>>
  /\ thrown = ""
  /\ wire = <<>>
  /\ parsed = <<>>
  /\ StreamOff

SpecExtensions == InitExtensions /\ [][AdapterNext]_vars

\* The request's extra_body holds an array under tools.
HasOverrideTools ==
  /\ request.extra_body.t = "object"
  /\ "tools" \in DOMAIN request.extra_body.o
  /\ request.extra_body.o.tools.t = "array"

\* The extra_body bag without its tools key; empty when there is no bag.
RemainingBag ==
  IF request.extra_body.t # "object" THEN <<>>
  ELSE [k \in DOMAIN request.extra_body.o \ {"tools"} |-> request.extra_body.o[k]]

\* C17: when the request's extra_body holds a tools array, empty or not, the
\* params sent have that array as tools and no tool_choice key; otherwise they
\* have the request's tools and tool_choice.
C17_ExplicitToolOverride ==
  sent # <<>> =>
    IF HasOverrideTools
      THEN /\ sent[1].tools = request.extra_body.o.tools
           /\ "tool_choice" \notin DOMAIN sent[1]
      ELSE /\ sent[1].tools = request.tools
           /\ "tool_choice" \in DOMAIN sent[1]
           /\ sent[1].tool_choice = request.tool_choice

\* C17 witness: an empty tools array in extra_body replaced the canonical
\* tools of a request that also set tool_choice.
C17_Witness ==
  /\ sent # <<>>
  /\ request.tools = CanonicalTools
  /\ request.tool_choice = JStr("auto")
  /\ HasOverrideTools
  /\ request.extra_body.o.tools = JArr(<<>>)
  /\ sent[1].tools = JArr(<<>>)
  /\ "tool_choice" \notin DOMAIN sent[1]

\* C18 as stated: every extra_body key other than tools is merged into the
\* params sent, with its value unchanged.
C18_RestMergedIntoPayload ==
  sent # <<>> =>
    \A k \in DOMAIN RemainingBag :
      k \in DOMAIN sent[1] /\ sent[1][k] = RemainingBag[k]

\* C18 as amended: the extra_body keys other than tools are sent unchanged as
\* one object under the key extra_body, and only if there is any such key;
\* otherwise the params sent have no extra_body key.
C18_RestNestedIfNonEmpty ==
  sent # <<>> =>
    IF DOMAIN RemainingBag # {}
      THEN /\ "extra_body" \in DOMAIN sent[1]
           /\ sent[1].extra_body = JObj(RemainingBag)
      ELSE "extra_body" \notin DOMAIN sent[1]

\* C18 witness: a bag with a tools array and the key top_k was sent as
\* extra_body {top_k}.
C18_Witness ==
  /\ sent # <<>>
  /\ HasOverrideTools
  /\ DOMAIN RemainingBag = {"top_k"}
  /\ "extra_body" \in DOMAIN sent[1]
  /\ sent[1].extra_body = JObj([top_k |-> JStr("40")])


\* C34: the params sent have no thinkingConfig key; they have the request's
\* thinking_config under thinking_config if it is an object, else the
\* request's thinkingConfig under that key if it is an object, else no
\* thinking_config key.
C34_ThinkingConfigEitherName ==
  sent # <<>> =>
    /\ "thinkingConfig" \notin DOMAIN sent[1]
    /\ IF request.thinking_config.t = "object"
         THEN /\ "thinking_config" \in DOMAIN sent[1]
              /\ sent[1].thinking_config = request.thinking_config
         ELSE IF request.thinkingConfig.t = "object"
           THEN /\ "thinking_config" \in DOMAIN sent[1]
                /\ sent[1].thinking_config = request.thinkingConfig
           ELSE "thinking_config" \notin DOMAIN sent[1]

\* C34 witness: a request with an object under thinkingConfig only was sent
\* with that object under thinking_config.
C34_Witness ==
  /\ sent # <<>>
  /\ request.thinking_config = JUndefined
  /\ request.thinkingConfig = JObj([budget |-> JStr("camel")])
  /\ "thinking_config" \in DOMAIN sent[1]
  /\ sent[1].thinking_config = JObj([budget |-> JStr("camel")])

(***************************************************************************)
(* Further claims about the coordinator.                                   *)
(***************************************************************************)

\* Attempt k has been superseded: it is still in flight while the
\* coordinator's pending promise is that of a later attempt.
Superseded(k) ==
  /\ Pending(k)
  /\ mcpManagerInitPromise # Null
  /\ mcpManagerInitPromise > k

\* C26: when a superseded construction attempt fails, the instance reference
\* and the pending promise, which belong to the newer attempt, are left as
\* they are.
C26_StaleFailureLeavesNewer ==
  [][\A k \in Attempts :
       (Superseded(k) /\ promises'[k].state = "rejected") =>
         /\ mcpManager' = mcpManager
         /\ mcpManagerInitPromise' = mcpManagerInitPromise]_vars

\* Number of cleanup() calls that found an instance stored.
RECURSIVE CleanupsHolding(_)
CleanupsHolding(n) ==
  IF n = 0 THEN 0
  ELSE CleanupsHolding(n - 1) + (IF cleanupLog[n].held # Null THEN 1 ELSE 0)

\* Number of teardown calls on the instances 1..k.
RECURSIVE TeardownsUpTo(_)
TeardownsUpTo(k) ==
  IF k = 0 THEN 0 ELSE TeardownsUpTo(k - 1) + teardownCalls[k]

\* C27: cleanup() calls the teardown of the stored instance exactly when an
\* instance is stored, and no instance is torn down more than once.
C27_TeardownAtMostOnce ==
  /\ TeardownsUpTo(Len(teardownCalls)) = CleanupsHolding(Len(cleanupLog))
  /\ \A k \in DOMAIN teardownCalls : teardownCalls[k] <= 1

(***************************************************************************)
(* Further claims about request translation.                               *)
(***************************************************************************)

\* The ids called by the assistant messages of the request.
RequestCalledIds ==
  UNION {{id \in ToolCallIdSet :
            \E j \in DOMAIN RequestedIds(request.messages[i]) :
              RequestedIds(request.messages[i])[j] = id} :
         i \in {x \in DOMAIN request.messages : request.messages[x].role = "assistant"}}

\* C25: the params sent have one translated message per message of the
\* request, in request order, and every tool message is passed through with
\* its content and tool_call_id, also when no assistant tool call has its id.
C25_MessageListPreserved ==
  \A n \in DOMAIN sent :
    /\ Len(sent[n].messages.a) = Len(request.messages)
    /\ \A i \in DOMAIN request.messages :
         LET rm == request.messages[i]
             pm == sent[n].messages.a[i]
         IN
         /\ pm.role = rm.role
         /\ rm.content.t = "string" => pm.content = rm.content
         /\ rm.role = "tool" =>
              /\ DOMAIN pm = {"role", "content", "tool_call_id"}
              /\ pm.tool_call_id = rm.tool_call.id

\* C25 witness: a request whose tool message for call_1 is called by no
\* assistant message, while its assistant message lost its tool_calls, was
\* sent with that tool message in place.
C25_Witness ==
  /\ Len(sent) = 1
  /\ "call_1" \notin RequestCalledIds
  /\ \E i, k \in DOMAIN request.messages :
       /\ request.messages[i].role = "tool"
       /\ request.messages[i].tool_call.id = "call_1"
       /\ sent[1].messages.a[i].role = "tool"
       /\ sent[1].messages.a[i].tool_call_id = "call_1"
       /\ request.messages[k].role = "assistant"
       /\ RequestedIds(request.messages[k]) = <<"call_2">>
       /\ ~HasToolCalls(sent[1].messages.a[k])

\* The requests explored for the sampling parameters: one user message, each
\* parameter unset or set, the temperature also null.
SamplingNames ==
  {"temperature", "top_p", "frequency_penalty", "presence_penalty",
   "max_tokens", "logit_bias", "prediction"}

SamplingRequests ==
  {[BaseRequest(<<[role |-> "user", content |-> TextContent]>>) EXCEPT
      !.temperature = t, !.top_p = tp, !.frequency_penalty = fp,
      !.presence_penalty = pp, !.max_tokens = mt, !.logit_bias = lb,
      !.prediction = pr] :
     t \in {JUndefined, JNull, JNum(1)},
     tp \in {JUndefined, JNum(2)},
     fp \in {JUndefined, JNum(3)},
     pp \in {JUndefined, JNum(4)},
     mt \in {JUndefined, JNum(256)},
     lb \in {JUndefined, JObj([tok |-> JNum(5)])},
     pr \in {JUndefined, JObj([type |-> JStr("content")])}}

\* The adapter is handed any of SamplingRequests.
InitSampling ==
  /\ CoordInit
  /\ PluginInit
  /\ adapterPc = "ready"
  /\ request \in SamplingRequests
  /\ sent = <<>>
  /\ thrown = ""
  /\ wire = <<>>
  /\ parsed = <<>>
  /\ StreamOff

SpecSampling == InitSampling /\ [][AdapterNext]_vars

\* C23: every sampling parameter of the params sent is the request's
\* parameter of the same name, and a parameter the request leaves unset is
\* not null in the params and is not serialized.
C23_SamplingCopied ==
  \A n \in DOMAIN sent :
    \A p \in SamplingNames :
      /\ p \in DOMAIN sent[n]
      /\ sent[n][p] = request[p]
      /\ request[p] = JUndefined =>
           sent[n][p] # JNull /\ p \notin WireKeys(sent[n])

\* C23 witness: a request with temperature and max_tokens set and the other
\* parameters unset was sent with exactly those two serialized.
C23_Witness ==
  /\ Len(sent) = 1
  /\ request.temperature = JNum(1)
  /\ request.max_tokens = JNum(256)
  /\ sent[1].temperature = JNum(1)
  /\ sent[1].max_tokens = JNum(256)
  /\ WireKeys(sent[1]) \cap SamplingNames = {"temperature", "max_tokens"}

(***************************************************************************)
(* Model of the streamed response (streamResponse and                      *)
(* streamResponseGenerator, lines 221-245) and of cancellation. One action *)
(* is one synchronous stretch: a consumer's next() call with the part of   *)
(* the generator body it resumes, the continuation of the generator when   *)
(* the transport settles the pull it awaits, the continuation of           *)
(* generateResponse / streamResponse when the create call settles, and the *)
(* caller's abort().                                                       *)
(***************************************************************************)

\* Longest chunk sequence explored.
MaxChunks == 3

\* The transport was given the caller's signal and the signal is raised: it
\* fails the call in flight and every pull on its chunk sequence.
Aborted == sent # <<>> /\ createOptions.signal /\ signal = "raised"

\* Mutant: a chunk whose delta has no content is not yielded.
LoopBody_SkipsEmptyDelta(chunk, yielded) ==
  IF Get(chunk.choices[1].delta, "content") \in {JUndefined, JNull}
    THEN yielded
    ELSE Append(yielded, parseStreamingResponseChunkOf(chunk))

\* The body of the for await loop: `yield this.parseStreamingResponseChunk(chunk)`.
LoopBody(chunk, yielded) == Append(yielded, parseStreamingResponseChunkOf(chunk))

\* Mutant: the generator goes on to the next chunk without being asked.
MayResume_Eager(req, answered) == TRUE

\* An async generator runs on only while a next() call of its consumer is
\* unanswered; after a yield it stays suspended otherwise.
MayResume(req, answered) == req > answered

\* The create call settles. With the signal raised it rejects and the entry
\* point throws; otherwise generateResponse parses the ChatCompletion and
\* streamResponse returns the generator, not yet started.
createSettles ==
  /\ adapterPc \in {"generated", "streamed"}
  /\ sent # <<>>
  /\ thrown = ""
  /\ genPc = "none"
  /\ parsed = <<>>
  /\ IF Aborted
       THEN thrown' = "AbortError" /\ UNCHANGED <<genPc, parsed>>
       ELSE IF adapterPc = "streamed"
         THEN genPc' = "created" /\ UNCHANGED <<thrown, parsed>>
         ELSE parsed' = <<parseNonStreamingResponseOf(wire)>> /\ UNCHANGED <<thrown, genPc>>
  /\ UNCHANGED <<adapterPc, request, sent, wire, coordVars, pluginVars>>
  /\ UNCHANGED <<signal, createOptions, incoming, pulled, requested>>

\* The consumer calls next() on the generator. A suspended generator runs to
\* the next() it calls on the transport's sequence and awaits it; a
\* generator that is awaiting or has finished only takes note of the request.
consumerNext ==
  /\ genPc # "none"
  /\ requested < Len(incoming) + 2
  /\ requested' = requested + 1
  /\ IF genPc \in {"created", "yielded"} /\ MayResume(requested', Len(parsed))
       THEN pulled' = pulled + 1 /\ genPc' = "awaiting"
       ELSE UNCHANGED <<pulled, genPc>>
  /\ UNCHANGED <<adapterPc, request, sent, thrown, wire, parsed, coordVars, pluginVars>>
  /\ UNCHANGED <<signal, createOptions, incoming>>

\* The transport settles the pull the generator awaits: with an error when
\* aborted, which the generator rethrows; with the next chunk, which is
\* parsed and yielded, the generator going on only for a request still
\* unanswered; or with the end of the sequence, and the generator returns.
transportSettles ==
  /\ genPc = "awaiting"
  /\ IF Aborted
       THEN genPc' = "threw" /\ thrown' = "AbortError" /\ UNCHANGED <<parsed, pulled>>
       ELSE IF pulled <= Len(incoming)
         THEN /\ parsed' = LoopBody(incoming[pulled], parsed)
              /\ IF MayResume(requested, Len(parsed'))
                   THEN pulled' = pulled + 1 /\ genPc' = "awaiting"
                   ELSE pulled' = pulled /\ genPc' = "yielded"
              /\ thrown' = thrown
         ELSE genPc' = "returned" /\ UNCHANGED <<parsed, pulled, thrown>>
  /\ UNCHANGED <<adapterPc, request, sent, wire, coordVars, pluginVars>>
  /\ UNCHANGED <<signal, createOptions, incoming, requested>>

\* The caller raises its AbortSignal.
abort ==
  /\ signal = "idle"
  /\ signal' = "raised"
  /\ UNCHANGED <<adapterPc, request, sent, thrown, wire, parsed, coordVars, pluginVars>>
  /\ UNCHANGED <<createOptions, incoming, pulled, requested, genPc>>

StreamNext ==
  \/ generateResponse
  \/ streamResponse
  \/ createSettles
  \/ consumerNext
  \/ transportSettles
  \/ abort

\* The chunks and the ChatCompletion the transport delivers.
StreamChunk(content, finishReason, usage) ==
  [id |-> JStr("id"), created |-> JStr("now"), model |-> JStr("gpt"),
   system_fingerprint |-> JUndefined, usage |-> usage,
   choices |-> <<[finish_reason |-> finishReason,
                  delta |-> Present([role |-> JStr("assistant"), content |-> content])]>>]

StreamChunkChoices ==
  {StreamChunk(JStr("a"), JNull, JNull),
   StreamChunk(Absent, JUndefined, JNull),
   StreamChunk(JStr("b"), JStr("stop"), JObj([total_tokens |-> JStr("7")]))}

StreamChunkLists == UNION {[1..n -> StreamChunkChoices] : n \in 0..MaxChunks}

StreamCompletion ==
  [id |-> JStr("id"), created |-> JStr("now"), model |-> JStr("gpt"),
   system_fingerprint |-> JUndefined, usage |-> JNull,
   choices |-> <<[finish_reason |-> JStr("stop"),
                  message |-> [role |-> JStr("assistant"), content |-> JStr("ab")]]>>]

\* The adapter is handed a request, with or without a signal; the backend
\* will answer with StreamCompletion or with any of StreamChunkLists.
InitStream ==
  /\ CoordInit
  /\ PluginInit
  /\ adapterPc = "ready"
  /\ request = BaseRequest(<<[role |-> "user", content |-> TextContent]>>)
  /\ sent = <<>>
  /\ thrown = ""
  /\ wire = StreamCompletion
  /\ parsed = <<>>
  /\ signal \in {"none", "idle"}
  /\ createOptions = <<>>
  /\ incoming \in StreamChunkLists
  /\ pulled = 0
  /\ requested = 0
  /\ genPc = "none"

SpecStream == InitStream /\ [][StreamNext]_vars

(***************************************************************************)
(* Claims about the streamed response.                                      *)
(***************************************************************************)

\* The generator has finished, by returning or by throwing.
Ended == genPc \in {"returned", "threw"}

\* C21: the k-th fragment yielded is the parse of the k-th chunk of the
\* transport, no more than one fragment is yielded per consumer request, and
\* the generator returns exactly when the transport has reported the end of
\* its sequence, all chunks then being yielded.
C21_OneToOneInOrder ==
  adapterPc = "streamed" =>
    /\ Len(parsed) <= Len(incoming)
    /\ \A k \in DOMAIN parsed : parsed[k] = parseStreamingResponseChunkOf(incoming[k])
    /\ Len(parsed) <= requested
    /\ genPc = "returned" => Len(parsed) = Len(incoming) /\ pulled = Len(incoming) + 1
    /\ (pulled = Len(incoming) + 1 /\ genPc # "awaiting") => Ended

\* C21 witness: three chunks, the first two different, were yielded as three
\* fragments and the generator returned.
C21_Witness ==
  /\ adapterPc = "streamed"
  /\ genPc = "returned"
  /\ Len(incoming) = 3
  /\ incoming[1] # incoming[2]
  /\ Len(parsed) = 3

\* C22: the generator has called next() on the transport's sequence at most
\* as often as the consumer has called next() on the generator.
C22_NeverBuffersAhead == pulled <= requested

\* C22 witness: the consumer has taken two of three chunks and asks for no
\* more: the generator stays suspended, the third chunk unpulled.
C22_Witness ==
  /\ genPc = "yielded"
  /\ Len(incoming) = 3
  /\ requested = 2
  /\ pulled = 2
  /\ Len(parsed) = 2

\* C24: once the caller's signal is raised, no fragment and no response is
\* produced any more: a create call in flight does not resolve to a
\* generator or a response, and a pull the generator awaits ends with the
\* generator throwing.
C24_AbortEndsSequence ==
  [][signal = "raised" =>
       /\ parsed' = parsed
       /\ genPc = "none" => genPc' = "none"
       /\ (genPc = "awaiting" /\ genPc' # "awaiting") => genPc' = "threw"]_vars

\* C24 witness: the signal was raised after the first fragments; the
\* consumer's next request ended the sequence with the abort error, chunks
\* remaining undelivered.
C24_Witness ==
  /\ signal = "raised"
  /\ genPc = "threw"
  /\ thrown = "AbortError"
  /\ Len(parsed) >= 1
  /\ Len(parsed) < Len(incoming)
  /\ requested > Len(parsed)

(***************************************************************************)
(* Model of SmartComposerPlugin (src/unnamed/part_000): the persistent     *)
(* store kept by getDbManager, the plugin's getMcpManager over its         *)
(* McpCoordinator, and onunload. Instances and promises of the store are   *)
(* numbered by DatabaseManager.create call, as those of the coordinator.   *)
(***************************************************************************)

\* Bounds of the exploration of the plugin.
MaxDbCalls == 3
MaxPluginCalls == 1
MaxUnloads == 1

DbAttempts == DOMAIN dbPromises

DbPending(k) == dbPromises[k].state = "pending"
DbFulfilled(k) == dbPromises[k].state = "fulfilled"
DbRejected(k) == dbPromises[k].state = "rejected"

\* DatabaseManager.create settlements and onunload() calls so far.
DbEpoch == Cardinality({k \in DbAttempts : ~DbPending(k)}) + Len(unloadLog)

\* What the promise returned by a getDbManager() call settles to.
DbOutcome(c) ==
  IF c.kind = "value" THEN [t |-> "ok", v |-> c.ref]
  ELSE IF DbPending(c.ref) THEN [t |-> "pending", v |-> Null]
  ELSE IF DbFulfilled(c.ref) THEN [t |-> "ok", v |-> dbPromises[c.ref].value]
  ELSE [t |-> "err", v |-> c.ref]

\* Mutant: the pending promise is not consulted.
DbBranch_NoPromiseGuard(mgr, prom) ==
  IF mgr # Null THEN "existing" ELSE "construct"

\* The path getDbManager() takes: return the stored manager, start
\* DatabaseManager.create, or return the promise already stored.
DbBranch(mgr, prom) ==
  IF mgr # Null THEN "existing"
  ELSE IF prom = Null THEN "construct"
  ELSE "wait"

\* The record of one getDbManager() call.
DbCallRec(kind, ref, constructed) ==
  [kind |-> kind, ref |-> ref, constructed |-> constructed,
   epoch |-> DbEpoch, unloads |-> Len(unloadLog),
   nRejected |-> Cardinality({k \in DbAttempts : DbRejected(k)})]

\* getDbManager(): the synchronous part of the call, DatabaseManager.create
\* started where no manager and no promise is stored.
getDbManager ==
  /\ Len(dbCalls) < MaxDbCalls
  /\ LET b == DbBranch(dbManager, dbManagerInitPromise) IN
     CASE b = "existing" ->
            /\ dbCalls' = Append(dbCalls, DbCallRec("value", dbManager, FALSE))
            /\ UNCHANGED <<dbManagerInitPromise, dbPromises>>
       [] b = "construct" ->
            LET n == Len(dbPromises) + 1 IN
            /\ dbManagerInitPromise' = n
            /\ dbPromises' = Append(dbPromises, [state |-> "pending", value |-> Null])
            /\ dbCalls' = Append(dbCalls, DbCallRec("promise", n, TRUE))
       [] b = "wait" ->
            /\ dbCalls' = Append(dbCalls, DbCallRec("promise", dbManagerInitPromise, FALSE))
            /\ UNCHANGED <<dbManagerInitPromise, dbPromises>>
  /\ UNCHANGED <<dbManager, mcpCoordinator, madeBy, pluginMcpManager, unloadLog>>
  /\ UNCHANGED <<settingsVars, taskVars, coordVars, adapterVars>>

\* DatabaseManager.create call k resolves: the initializer stores the
\* instance in this.dbManager and returns it.
createResolves(k) ==
  /\ DbPending(k)
  /\ dbManager' = k
  /\ dbPromises' = [dbPromises EXCEPT ![k] = [state |-> "fulfilled", value |-> k]]
  /\ UNCHANGED <<dbManagerInitPromise, dbCalls, mcpCoordinator, madeBy, pluginMcpManager, unloadLog>>
  /\ UNCHANGED <<settingsVars, taskVars, coordVars, adapterVars>>

\* Mutant: the catch block leaves the rejected promise stored.
createRejects_KeepsPromise(k) ==
  /\ DbPending(k)
  /\ dbPromises' = [dbPromises EXCEPT ![k] = [state |-> "rejected", value |-> Null]]
  /\ UNCHANGED <<dbManager, dbManagerInitPromise, dbCalls, mcpCoordinator, madeBy,
                 pluginMcpManager, unloadLog>>
  /\ UNCHANGED <<settingsVars, taskVars, coordVars, adapterVars>>

\* DatabaseManager.create call k rejects: the catch block clears the stored
\* promise and rethrows.
createRejects(k) ==
  /\ DbPending(k)
  /\ dbManagerInitPromise' = Null
  /\ dbPromises' = [dbPromises EXCEPT ![k] = [state |-> "rejected", value |-> Null]]
  /\ UNCHANGED <<dbManager, dbCalls, mcpCoordinator, madeBy, pluginMcpManager, unloadLog>>
  /\ UNCHANGED <<settingsVars, taskVars, coordVars, adapterVars>>

\* The plugin's getMcpManager() up to its await: getMcpCoordinator() makes
\* the coordinator object if there is none, and its getMcpManager() is called.
pluginGetMcpManager ==
  /\ Len(calls) < MaxPluginCalls
  /\ getMcpManager
  /\ mcpCoordinator' = IF mcpCoordinator = Null THEN Len(unloadLog) + 1 ELSE mcpCoordinator
  /\ madeBy' = IF Len(promises') > Len(promises) THEN Append(madeBy, mcpCoordinator') ELSE madeBy
  /\ UNCHANGED <<pluginMcpManager, unloadLog, dbVars, settingsVars, taskVars, adapterVars>>

\* initialize() of attempt k resolves. An attempt of a coordinator object the
\* plugin has dropped runs on that object, whose mcpManager cleanup() has
\* cleared: it returns null and touches no field of the current one.
pluginInitializeResolves(k) ==
  /\ IF madeBy[k] = mcpCoordinator
       THEN initializeResolves(k)
       ELSE /\ Pending(k)
            /\ promises' = [promises EXCEPT ![k] = [state |-> "fulfilled", value |-> Null]]
            /\ UNCHANGED <<mcpManager, mcpManagerInitPromise, teardownCalls, calls, cleanupLog>>
  /\ UNCHANGED <<pluginVars, adapterVars>>

\* initialize() of attempt k rejects, on the coordinator object that started it.
pluginInitializeRejects(k) ==
  /\ IF madeBy[k] = mcpCoordinator
       THEN initializeRejects(k)
       ELSE /\ Pending(k)
            /\ promises' = [promises EXCEPT ![k] = [state |-> "rejected", value |-> Null]]
            /\ UNCHANGED <<mcpManager, mcpManagerInitPromise, teardownCalls, calls, cleanupLog>>
  /\ UNCHANGED <<pluginVars, adapterVars>>

\* The plugin's getMcpManager() after its await: the manager received is
\* stored in this.mcpManager; a rejection is rethrown.
getMcpManagerContinues(i) ==
  /\ awaitResult(i)
  /\ pluginMcpManager' =
       IF Outcome(calls[i]).t = "ok" THEN Outcome(calls[i]).v ELSE pluginMcpManager
  /\ UNCHANGED <<mcpCoordinator, madeBy, unloadLog, dbVars, settingsVars, taskVars, adapterVars>>

MaxControllers == 2
MaxCancels == 1

\* The abort controllers callers hand to addAbortController.
Controllers == 1..MaxControllers

\* The members of this.activeAbortControllers.
Registered == {activeAbortControllers[i] : i \in DOMAIN activeAbortControllers}

\* Mutant: without the try/catch the loop ends at the first abort() that
\* throws.
AbortAll_StopsAtThrow(controllers, throwing) ==
  {controllers[i] : i \in {j \in DOMAIN controllers :
                             \A h \in 1..(j - 1) : controllers[h] \notin throwing}}

\* The loop of cancelAllAiTasks(): the controllers whose abort() is called,
\* given those whose abort() throws.
AbortAll(controllers, throwing) ==
  {controllers[i] : i \in DOMAIN controllers}

\* The body of cancelAllAiTasks(): abort() is called on a copy of the
\* registry, the registry is cleared and the continuation flag is reset;
\* with an empty registry only the flag is reset.
cancelAllAiTasksBody(throwing) ==
  /\ abortCalled' = abortCalled \cup AbortAll(activeAbortControllers, throwing)
  /\ activeAbortControllers' = <<>>
  /\ isContinuationInProgress' = FALSE
  /\ cancelLog' = Append(cancelLog,
       [registered |-> Registered, throwing |-> throwing, attempts |-> Len(promises)])

\* onunload(): the store's promise and instance are dropped, the coordinator
\* is cleaned up and dropped, the plugin's mcpManager is cleared and the AI
\* tasks are cancelled. A coordinator cleanup() that throws leaves onunload()
\* at that call.
onunload ==
  /\ Len(unloadLog) < MaxUnloads
  /\ dbManagerInitPromise' = Null
  /\ dbManager' = Null
  /\ IF mcpCoordinator # Null
       THEN /\ cleanup
            /\ LET threw == cleanupLog'[Len(cleanupLog')].threw IN
               /\ mcpCoordinator' = IF threw THEN mcpCoordinator ELSE Null
               /\ pluginMcpManager' = IF threw THEN pluginMcpManager ELSE Null
               /\ unloadLog' = Append(unloadLog,
                    [completed |-> ~threw, dbCalls |-> Len(dbCalls), mcpCalls |-> Len(calls)])
       ELSE /\ UNCHANGED coordVars
            /\ mcpCoordinator' = Null
            /\ pluginMcpManager' = Null
            /\ unloadLog' = Append(unloadLog,
                 [completed |-> TRUE, dbCalls |-> Len(dbCalls), mcpCalls |-> Len(calls)])
  /\ IF mcpCoordinator # Null /\ cleanupLog'[Len(cleanupLog')].threw
       THEN UNCHANGED taskVars
       ELSE \E throwing \in SUBSET Registered : cancelAllAiTasksBody(throwing)
  /\ UNCHANGED <<madeBy, dbPromises, dbCalls, settingsVars, adapterVars>>

PluginNext ==
  \/ getDbManager
  \/ \E k \in DbAttempts : createResolves(k)
  \/ \E k \in DbAttempts : createRejects(k)
  \/ pluginGetMcpManager
  \/ \E k \in Attempts : pluginInitializeResolves(k)
  \/ \E k \in Attempts : pluginInitializeRejects(k)
  \/ \E i \in DOMAIN calls : getMcpManagerContinues(i)
  \/ onunload

SpecPlugin == Init /\ [][PluginNext]_vars

(***************************************************************************)
(* Claims about the plugin.                                                *)
(***************************************************************************)

DbCallIds == DOMAIN dbCalls

\* getDbManager() calls issued after call i with no DatabaseManager.create
\* settlement and no onunload() since call i.
DbSameWindow(i) == {j \in DbCallIds : j > i /\ dbCalls[j].epoch = dbCalls[i].epoch}

UnloadedAndIdle ==
  /\ unloadLog # <<>>
  /\ unloadLog[Len(unloadLog)].completed
  /\ unloadLog[Len(unloadLog)].dbCalls = Len(dbCalls)
  /\ unloadLog[Len(unloadLog)].mcpCalls = Len(calls)

\* C29: after a completed onunload() and with no getDbManager() or
\* getMcpManager() call since, the plugin's dbManager and mcpManager are null.
C29_NothingStoredAfterUnload ==
  UnloadedAndIdle => dbManager = Null /\ pluginMcpManager = Null


(***************************************************************************)
(* Settings changes: setSettings() and the settings listeners.             *)
(***************************************************************************)

MaxListeners == 2
MaxSetCalls == 1

\* The listener functions callers register, and the settings objects passed
\* to setSettings().
ListenerFns == {"f", "g"}
SettingsValues == {1, 2}

SetCallIds == DOMAIN setCalls

\* Mutant: the listeners are called last-registered first.
Notify_Reversed(listeners, c, newSettings) ==
  [i \in 1..Len(listeners) |->
     [call |-> c, reg |-> listeners[Len(listeners) + 1 - i].reg,
      fn |-> listeners[Len(listeners) + 1 - i].fn, settings |-> newSettings]]

\* this.settingsChangeListeners.forEach((listener) => listener(newSettings)):
\* the calls made, in array order, by setSettings() call c.
Notify(listeners, c, newSettings) ==
  [i \in 1..Len(listeners) |->
     [call |-> c, reg |-> listeners[i].reg, fn |-> listeners[i].fn,
      settings |-> newSettings]]

\* The array the unsubscribe closure of listener fn stores:
\* filter((l) => l !== listener).
WithoutListener(listeners, fn) == SelectSeq(listeners, LAMBDA l : l.fn # fn)

\* Mutant: the result of the schema check is ignored.
SetCallState_IgnoresValidation(valid) == "saving"

\* Where setSettings() stands after the schema check: it has returned after
\* the Notice, or it has stored the settings and awaits saveData().
SetCallState(valid) == IF valid THEN "saving" ELSE "invalid"

\* setSettings(newSettings) up to its await: settings the schema rejects
\* end the call after the Notice; valid ones are stored and saveData() is
\* started.
setSettings(newSettings, valid) ==
  /\ Len(setCalls) < MaxSetCalls
  /\ settings' = IF valid THEN newSettings ELSE settings
  /\ setCalls' = Append(setCalls,
       [newSettings |-> newSettings, valid |-> valid,
        state |-> SetCallState(valid),
        attempts |-> Len(promises), listeners |-> settingsChangeListeners # <<>>])
  /\ UNCHANGED <<settingsChangeListeners, registrations, notified>>
  /\ UNCHANGED <<mcpCoordinator, madeBy, pluginMcpManager, unloadLog, dbVars, taskVars>>
  /\ UNCHANGED <<coordVars, adapterVars>>

\* saveData() of call c resolves: setSettings() continues and calls the
\* listeners in the array at that moment.
saveResolves(c) ==
  /\ setCalls[c].state = "saving"
  /\ setCalls' = [setCalls EXCEPT ![c].state = "done"]
  /\ notified' = notified \o Notify(settingsChangeListeners, c, setCalls[c].newSettings)
  /\ UNCHANGED <<settings, settingsChangeListeners, registrations>>
  /\ UNCHANGED <<mcpCoordinator, madeBy, pluginMcpManager, unloadLog, dbVars, taskVars>>
  /\ UNCHANGED <<coordVars, adapterVars>>

\* saveData() of call c rejects: setSettings() rejects at its await.
saveRejects(c) ==
  /\ setCalls[c].state = "saving"
  /\ setCalls' = [setCalls EXCEPT ![c].state = "failed"]
  /\ UNCHANGED <<settings, settingsChangeListeners, registrations, notified>>
  /\ UNCHANGED <<mcpCoordinator, madeBy, pluginMcpManager, unloadLog, dbVars, taskVars>>
  /\ UNCHANGED <<coordVars, adapterVars>>

\* addSettingsChangeListener(fn): the function is pushed; registrations
\* remembers which function each returned unsubscribe closure captured.
addSettingsChangeListener(fn) ==
  /\ Len(registrations) < MaxListeners
  /\ registrations' = Append(registrations, fn)
  /\ settingsChangeListeners' =
       Append(settingsChangeListeners, [fn |-> fn, reg |-> Len(registrations) + 1])
  /\ UNCHANGED <<settings, setCalls, notified>>
  /\ UNCHANGED <<mcpCoordinator, madeBy, pluginMcpManager, unloadLog, dbVars, taskVars>>
  /\ UNCHANGED <<coordVars, adapterVars>>

\* The closure returned by registration r is called.
unsubscribe(r) ==
  /\ settingsChangeListeners' = WithoutListener(settingsChangeListeners, registrations[r])
  /\ UNCHANGED <<settings, registrations, setCalls, notified>>
  /\ UNCHANGED <<mcpCoordinator, madeBy, pluginMcpManager, unloadLog, dbVars, taskVars>>
  /\ UNCHANGED <<coordVars, adapterVars>>

SettingsNext ==
  \/ \E newSettings \in SettingsValues, valid \in BOOLEAN : setSettings(newSettings, valid)
  \/ \E c \in SetCallIds : saveResolves(c)
  \/ \E c \in SetCallIds : saveRejects(c)
  \/ \E fn \in ListenerFns : addSettingsChangeListener(fn)
  \/ \E r \in DOMAIN registrations : unsubscribe(r)
  \/ pluginGetMcpManager
  \/ \E k \in Attempts : pluginInitializeResolves(k)
  \/ \E k \in Attempts : pluginInitializeRejects(k)

SpecSettings == Init /\ [][SettingsNext]_vars

(***************************************************************************)
(* Claims about settings changes.                                          *)
(***************************************************************************)

\* A step of setSettings(): the call is issued, or it continues after
\* saveData().
SetSettingsStep == setCalls' # setCalls

InvalidCalls == {c \in SetCallIds : ~setCalls[c].valid}

\* C31: a setSettings() call whose settings fail the schema check leaves
\* this.settings as it was, never starts saveData() and never calls a
\* listener, at the call and at every later step.
C31_InvalidChangesNothing ==
  [][ /\ \A c \in DOMAIN setCalls' :
           (c \notin SetCallIds /\ ~setCalls'[c].valid) =>
             /\ settings' = settings
             /\ notified' = notified
             /\ settingsChangeListeners' = settingsChangeListeners
             /\ setCalls'[c].state = "invalid"
      /\ \A c \in InvalidCalls :
           /\ setCalls'[c].state = "invalid"
           /\ \A n \in DOMAIN notified' : notified'[n].call # c
    ]_vars

\* A rejected setSettings() call made with listeners registered, two of
\* them registered now, and with settings that differ from the stored ones.
C31_Witness ==
  \E c \in InvalidCalls :
    /\ setCalls[c].newSettings # settings
    /\ setCalls[c].listeners
    /\ Len(settingsChangeListeners) >= 2
    /\ notified = <<>>


\* The listener array with registration r taken out and every other
\* registration kept.
WithoutRegistration(listeners, r) == SelectSeq(listeners, LAMBDA l : l.reg # r)

\* C32: a call of an unsubscribe closure that shortens the listener array
\* takes out one registration only, every other registration, of the same
\* function too, staying in the array that later setSettings() calls notify.
C32_UnsubscribeRemovesOne ==
  [][ Len(settingsChangeListeners') < Len(settingsChangeListeners) =>
        \E r \in DOMAIN registrations :
          settingsChangeListeners' = WithoutRegistration(settingsChangeListeners, r)
    ]_vars


(***************************************************************************)
(* Cancellation of AI tasks: the registry of abort controllers.           *)
(***************************************************************************)

\* addAbortController(controller): Set.add, a member is not added again.
addAbortController(controller) ==
  /\ activeAbortControllers' =
       IF controller \in Registered THEN activeAbortControllers
       ELSE Append(activeAbortControllers, controller)
  /\ UNCHANGED <<isContinuationInProgress, abortCalled, cancelLog>>
  /\ UNCHANGED <<mcpCoordinator, madeBy, pluginMcpManager, unloadLog, dbVars, settingsVars>>
  /\ UNCHANGED <<coordVars, adapterVars>>

\* removeAbortController(controller): Set.delete.
removeAbortController(controller) ==
  /\ activeAbortControllers' = SelectSeq(activeAbortControllers, LAMBDA c : c # controller)
  /\ UNCHANGED <<isContinuationInProgress, abortCalled, cancelLog>>
  /\ UNCHANGED <<mcpCoordinator, madeBy, pluginMcpManager, unloadLog, dbVars, settingsVars>>
  /\ UNCHANGED <<coordVars, adapterVars>>

\* setContinuationInProgress(value)
setContinuationInProgress(value) ==
  /\ isContinuationInProgress' = value
  /\ UNCHANGED <<activeAbortControllers, abortCalled, cancelLog>>
  /\ UNCHANGED <<mcpCoordinator, madeBy, pluginMcpManager, unloadLog, dbVars, settingsVars>>
  /\ UNCHANGED <<coordVars, adapterVars>>

\* cancelAllAiTasks(), with any of the registered controllers throwing from
\* abort().
cancelAllAiTasks ==
  /\ Len(cancelLog) < MaxCancels
  /\ \E throwing \in SUBSET Registered : cancelAllAiTasksBody(throwing)
  /\ UNCHANGED <<mcpCoordinator, madeBy, pluginMcpManager, unloadLog, dbVars, settingsVars>>
  /\ UNCHANGED <<coordVars, adapterVars>>

TasksNext ==
  \/ \E controller \in Controllers : addAbortController(controller)
  \/ \E controller \in Controllers : removeAbortController(controller)
  \/ \E value \in BOOLEAN : setContinuationInProgress(value)
  \/ cancelAllAiTasks
  \/ pluginGetMcpManager
  \/ \E k \in Attempts : pluginInitializeResolves(k)
  \/ \E k \in Attempts : pluginInitializeRejects(k)

SpecTasks == Init /\ [][TasksNext]_vars

(***************************************************************************)
(* Claims about cancellation.                                              *)
(***************************************************************************)

\* C33: a cancelAllAiTasks() call has abort() called on every controller in
\* the registry at that moment, leaves the registry empty and the
\* continuation flag false, and leaves the coordinator's manager and pending
\* promise as they were, starting no construction.
C33_CancelAbortsAllOnly ==
  [][ cancelLog' # cancelLog =>
        /\ \A c \in Registered : c \in abortCalled'
        /\ activeAbortControllers' = <<>>
        /\ isContinuationInProgress' = FALSE
        /\ mcpManager' = mcpManager
        /\ mcpManagerInitPromise' = mcpManagerInitPromise
        /\ promises' = promises
        /\ teardownCalls' = teardownCalls
    ]_vars

\* A cancelAllAiTasks() call made with two controllers registered, one
\* of them throwing from abort(), while a construction was pending and still
\* is.
C33_Witness ==
  \E n \in DOMAIN cancelLog :
    /\ Cardinality(cancelLog[n].registered) >= 2
    /\ cancelLog[n].throwing # {}
    /\ cancelLog[n].registered \subseteq abortCalled
    /\ cancelLog[n].attempts >= 1
    /\ cancelLog[n].attempts = Len(promises)
    /\ Pending(Len(promises))
    /\ mcpManagerInitPromise = Len(promises)
    /\ mcpManager # Null

====
